---- MODULE Spec2Model ----
(***************************************************************************)
(* Model of src/main.py: a grid agent that discovers a path to a random    *)
(* goal by random-walk trials (find_successful_path), caches the shortest  *)
(* path seen per goal (goal_paths) and replays it (move_with_memory).      *)
(*                                                                         *)
(* Coordinates are tuples <<x, y>>: pos[1] is Python's pos[0] (x) and      *)
(* pos[2] is Python's pos[1] (y).                                          *)
(***************************************************************************)
EXTENDS Integers, Sequences, FiniteSets, TLC

\* main.py:25 sets GRID_SIZE = 10; the model keeps the name and checks a
\* 2 x 2 grid, on which every edge and every clamped move exists.
GRID_SIZE == 2
\* main.py:100 (max_steps: int = 100): draws per discovery trial, scaled down.
max_steps == 2
\* main.py:153 (range(1000)): trials per call of ensure_path_for_goal, scaled down.
max_attempts == 2
\* Cap on the ticks of one episode (main.py's step_count is unbounded).
MaxTicks == 3

VARIABLES
    position,     \* main.py:40   the agent's position
    goal,         \* main.py:41   the current goal
    goal_paths,   \* main.py:44   goal coordinate -> shortest path seen
    step,         \* main.py:138  move_with_memory.step, the replay cursor
    branch,       \* which branch the last move_with_memory call took
    step_count,   \* main.py:160  ticks of the current episode
    running,      \* main.py:165  the driver loop's flag
    pc,           \* where the program is
    attempts,     \* iterations of ensure_path_for_goal's loop begun
    trial_pos,    \* main.py:108  the simulated position of the trial
    path          \* main.py:109  the directions drawn by the trial

vars == <<position, goal, goal_paths, step, branch, step_count, running,
          pc, attempts, trial_pos, path>>

\* Mutant of Direction: random_direction chooses among "up" and "left" only
Direction_UpLeft == {"up", "left"}

\* main.py:81  the directions random_direction chooses from
Direction == {"up", "down", "left", "right"}
Coords == (0 .. GRID_SIZE - 1) \X (0 .. GRID_SIZE - 1)
Origin == <<0, 0>>

\* Mutant of move_position: "down" and "right" test against GRID_SIZE, not
\* GRID_SIZE - 1
move_position_OffByOne(pos, direction) ==
    IF direction = "up" /\ pos[2] > 0 THEN <<pos[1], pos[2] - 1>>
    ELSE IF direction = "down" /\ pos[2] < GRID_SIZE THEN <<pos[1], pos[2] + 1>>
    ELSE IF direction = "left" /\ pos[1] > 0 THEN <<pos[1] - 1, pos[2]>>
    ELSE IF direction = "right" /\ pos[1] < GRID_SIZE THEN <<pos[1] + 1, pos[2]>>
    ELSE pos

\* Mutant of move_position: "up" and "left" do not test the edge
move_position_NoLowClamp(pos, direction) ==
    IF direction = "up" THEN <<pos[1], pos[2] - 1>>
    ELSE IF direction = "down" /\ pos[2] < GRID_SIZE - 1 THEN <<pos[1], pos[2] + 1>>
    ELSE IF direction = "left" THEN <<pos[1] - 1, pos[2]>>
    ELSE IF direction = "right" /\ pos[1] < GRID_SIZE - 1 THEN <<pos[1] + 1, pos[2]>>
    ELSE pos

\* main.py:83-98
move_position(pos, direction) ==
    IF direction = "up" /\ pos[2] > 0 THEN <<pos[1], pos[2] - 1>>
    ELSE IF direction = "down" /\ pos[2] < GRID_SIZE - 1 THEN <<pos[1], pos[2] + 1>>
    ELSE IF direction = "left" /\ pos[1] > 0 THEN <<pos[1] - 1, pos[2]>>
    ELSE IF direction = "right" /\ pos[1] < GRID_SIZE - 1 THEN <<pos[1] + 1, pos[2]>>
    ELSE pos

\* Mutant of ShouldRecord: "<=" for "<", an equally long path replaces the entry
ShouldRecord_OrEqual(gp, key, p) ==
    key \notin DOMAIN gp \/ Len(p) <= Len(gp[key])

\* main.py:116  the condition under which a successful trial's path is stored
ShouldRecord(gp, key, p) ==
    key \notin DOMAIN gp \/ Len(p) < Len(gp[key])

\* main.py:115-117  goal_paths after a trial reached key by path p
Record(gp, key, p) ==
    IF ShouldRecord(gp, key, p)
    THEN [k \in (DOMAIN gp) \cup {key} |-> IF k = key THEN p ELSE gp[k]]
    ELSE gp

\* The empty dict of main.py:44
EmptyCache == [k \in {} |-> <<>>]

\* Mutant of Replaying: off by one, the last cached direction is never replayed
Replaying_OffByOne(gp, key, cursor) ==
    key \in DOMAIN gp /\ cursor + 1 < Len(gp[key])

\* main.py:127-129  move_with_memory replays iff the goal is cached and the
\* cursor is inside the cached path
Replaying(gp, key, cursor) ==
    key \in DOMAIN gp /\ cursor < Len(gp[key])

\* main.py:40-44, 138, 160-165: module state, then main() up to its call of
\* ensure_path_for_goal at line 163
Init ==
    /\ position = Origin
    /\ goal \in Coords
    /\ goal_paths = EmptyCache
    /\ step = 0
    /\ branch = "none"
    /\ step_count = 0
    /\ running = TRUE
    /\ pc = "ensure"
    /\ attempts = 0
    /\ trial_pos = Origin
    /\ path = <<>>

\* Where ensure_path_for_goal returns to: the loop condition of main.py:166
AfterEnsure == IF running THEN "tick" ELSE "done"

\* Mutant of TrialBegin: ensure tests for an entry before the trial, and
\* returns without a trial when the goal is cached
TrialBegin_CheckFirst ==
    /\ pc = "ensure"
    /\ attempts < max_attempts
    /\ IF goal \in DOMAIN goal_paths
       THEN /\ pc' = AfterEnsure
            /\ UNCHANGED <<attempts, trial_pos, path>>
       ELSE /\ attempts' = attempts + 1
            /\ trial_pos' = Origin
            /\ path' = <<>>
            /\ pc' = "trial"
    /\ UNCHANGED <<position, goal, goal_paths, step, branch, step_count, running>>

\* main.py:153-154, 108-109: one more iteration of ensure's loop begins a trial
TrialBegin ==
    /\ pc = "ensure"
    /\ attempts < max_attempts
    /\ attempts' = attempts + 1
    /\ trial_pos' = Origin
    /\ path' = <<>>
    /\ pc' = "trial"
    /\ UNCHANGED <<position, goal, goal_paths, step, branch, step_count, running>>

\* main.py:153: the for loop of ensure_path_for_goal runs out
EnsureExhausted ==
    /\ pc = "ensure"
    /\ attempts >= max_attempts
    /\ pc' = AfterEnsure
    /\ UNCHANGED <<position, goal, goal_paths, step, branch, step_count, running,
                   attempts, trial_pos, path>>

\* Mutant of TrialMove: the trial wraps around the grid instead of clamping
TrialMove_Wrap(pos, d) ==
    IF d = "up" THEN <<pos[1], (pos[2] - 1) % GRID_SIZE>>
    ELSE IF d = "down" THEN <<pos[1], (pos[2] + 1) % GRID_SIZE>>
    ELSE IF d = "left" THEN <<(pos[1] - 1) % GRID_SIZE, pos[2]>>
    ELSE <<(pos[1] + 1) % GRID_SIZE, pos[2]>>

\* main.py:113: the trial moves its simulated position with move_position
TrialMove(pos, d) == move_position(pos, d)

\* Mutant of TrialStep: main.py:108 aliases the agent's position list
\* (trial_pos = position), so the trial moves the agent too
TrialStep_Aliased(d) ==
    /\ pc = "trial"
    /\ Len(path) < max_steps
    /\ LET np == Append(path, d)
           npos == TrialMove(trial_pos, d)
       IN /\ path' = np
          /\ trial_pos' = npos
          /\ position' = npos
          /\ IF npos = goal
             THEN /\ goal_paths' = Record(goal_paths, goal, np)
                  /\ pc' = "after_trial"
             ELSE /\ goal_paths' = goal_paths
                  /\ pc' = IF Len(np) < max_steps THEN "trial" ELSE "after_trial"
    /\ UNCHANGED <<goal, step, branch, step_count, running, attempts>>

\* Mutant of TrialStep: the test of main.py:114 comes first in the loop body,
\* before the draw and the move
TrialStep_CheckFirst(d) ==
    /\ pc = "trial"
    /\ Len(path) < max_steps
    /\ IF trial_pos = goal
       THEN /\ goal_paths' = Record(goal_paths, goal, path)
            /\ pc' = "after_trial"
            /\ UNCHANGED <<path, trial_pos>>
       ELSE /\ path' = Append(path, d)
            /\ trial_pos' = TrialMove(trial_pos, d)
            /\ goal_paths' = goal_paths
            /\ pc' = IF Len(path) + 1 < max_steps THEN "trial" ELSE "after_trial"
    /\ UNCHANGED <<position, goal, step, branch, step_count, running, attempts>>

\* Mutant of TrialStep: the break of main.py:119 is missing, the trial goes on
\* after reaching the goal
TrialStep_NoBreak(d) ==
    /\ pc = "trial"
    /\ Len(path) < max_steps
    /\ LET np == Append(path, d)
           npos == TrialMove(trial_pos, d)
       IN /\ path' = np
          /\ trial_pos' = npos
          /\ goal_paths' = IF npos = goal THEN Record(goal_paths, goal, np)
                                          ELSE goal_paths
          /\ pc' = IF Len(np) < max_steps THEN "trial" ELSE "after_trial"
    /\ UNCHANGED <<position, goal, step, branch, step_count, running, attempts>>

\* main.py:110-119: one iteration of the trial's loop with drawn direction d
TrialStep(d) ==
    /\ pc = "trial"
    /\ Len(path) < max_steps
    /\ LET np == Append(path, d)
           npos == TrialMove(trial_pos, d)
       IN /\ path' = np
          /\ trial_pos' = npos
          /\ IF npos = goal
             THEN /\ goal_paths' = Record(goal_paths, goal, np)
                  /\ pc' = "after_trial"
             ELSE /\ goal_paths' = goal_paths
                  /\ pc' = IF Len(np) < max_steps THEN "trial" ELSE "after_trial"
    /\ UNCHANGED <<position, goal, step, branch, step_count, running, attempts>>

\* Mutant of EnsureCheck: the break of main.py:156 is missing
EnsureCheck_NoBreak ==
    /\ pc = "after_trial"
    /\ pc' = "ensure"
    /\ trial_pos' = Origin
    /\ path' = <<>>
    /\ UNCHANGED <<position, goal, goal_paths, step, branch, step_count, running,
                   attempts>>

\* main.py:155-156: ensure's check after the trial; the trial's locals are gone
EnsureCheck ==
    /\ pc = "after_trial"
    /\ pc' = IF goal \in DOMAIN goal_paths THEN AfterEnsure ELSE "ensure"
    /\ trial_pos' = Origin
    /\ path' = <<>>
    /\ UNCHANGED <<position, goal, goal_paths, step, branch, step_count, running,
                   attempts>>

\* Mutant of move_with_memory: the cursor advances on random moves too
move_with_memory_AlwaysAdvance(d) ==
    /\ IF goal \in DOMAIN goal_paths /\ step < Len(goal_paths[goal])
       THEN /\ position' = move_position(position, goal_paths[goal][step + 1])
            /\ branch' = "replay"
       ELSE /\ position' = move_position(position, d)
            /\ branch' = "random"
    /\ step' = step + 1
    /\ UNCHANGED <<goal, goal_paths>>

\* Mutant of move_with_memory: the cursor wraps to 0 at the end of the path
move_with_memory_WrapCursor(d) ==
    /\ IF goal \in DOMAIN goal_paths /\ step < Len(goal_paths[goal])
       THEN /\ position' = move_position(position, goal_paths[goal][step + 1])
            /\ step' = (step + 1) % Len(goal_paths[goal])
            /\ branch' = "replay"
       ELSE /\ position' = move_position(position, d)
            /\ step' = step
            /\ branch' = "random"
    /\ UNCHANGED <<goal, goal_paths>>

\* Mutant of move_with_memory: the replay branch forgets to advance the cursor
move_with_memory_NoAdvance(d) ==
    /\ IF goal \in DOMAIN goal_paths /\ step < Len(goal_paths[goal])
       THEN /\ position' = move_position(position, goal_paths[goal][step + 1])
            /\ step' = step
            /\ branch' = "replay"
       ELSE /\ position' = move_position(position, d)
            /\ step' = step
            /\ branch' = "random"
    /\ UNCHANGED <<goal, goal_paths>>

\* main.py:121-136: move_with_memory, d being the direction random_direction
\* would return on this call
move_with_memory(d) ==
    /\ IF Replaying(goal_paths, goal, step)
       THEN /\ position' = move_position(position, goal_paths[goal][step + 1])
            /\ step' = step + 1
            /\ branch' = "replay"
       ELSE /\ position' = move_position(position, d)
            /\ step' = step
            /\ branch' = "random"
    /\ UNCHANGED <<goal, goal_paths>>

\* main.py:167-174: the first half of one iteration of the driver loop
Tick(d, quit) ==
    /\ pc = "tick"
    /\ step_count < MaxTicks
    /\ running' = (running /\ ~quit)
    /\ move_with_memory(d)
    /\ step_count' = step_count + 1
    /\ pc' = "check"
    /\ UNCHANGED <<attempts, trial_pos, path>>

\* Mutant of reset_position_and_goal: main.py:142 is missing
reset_position_and_goal_KeepPosition(g) ==
    /\ position' = position
    /\ goal' = g
    /\ step' = 0

\* Mutant of reset_position_and_goal: main.py:144 is missing
reset_position_and_goal_KeepCursor(g) ==
    /\ position' = Origin
    /\ goal' = g
    /\ step' = step

\* main.py:140-144: reset_position_and_goal, g being the goal randint draws
reset_position_and_goal(g) ==
    /\ position' = Origin
    /\ goal' = g
    /\ step' = 0

\* Mutant of GoalCheck: main.py:194 is missing, the loop goes on after the
\* reset without calling ensure_path_for_goal
GoalCheck_NoEnsure ==
    /\ pc = "check"
    /\ IF position = goal
       THEN /\ \E g \in Coords : reset_position_and_goal(g)
            /\ step_count' = 0
            /\ branch' = "none"
            /\ attempts' = 0
            /\ pc' = AfterEnsure
       ELSE /\ pc' = AfterEnsure
            /\ UNCHANGED <<position, goal, step, step_count, branch, attempts>>
    /\ UNCHANGED <<goal_paths, running, trial_pos, path>>

\* main.py:186-194, 166: the goal-reached check, the reset and the call of ensure
GoalCheck ==
    /\ pc = "check"
    /\ IF position = goal
       THEN /\ \E g \in Coords : reset_position_and_goal(g)
            /\ step_count' = 0
            /\ branch' = "none"
            /\ attempts' = 0
            /\ pc' = "ensure"
       ELSE /\ pc' = AfterEnsure
            /\ UNCHANGED <<position, goal, step, step_count, branch, attempts>>
    /\ UNCHANGED <<goal_paths, running, trial_pos, path>>

Next ==
    \/ TrialBegin
    \/ EnsureExhausted
    \/ \E d \in Direction : TrialStep(d)
    \/ EnsureCheck
    \/ \E d \in Direction, quit \in BOOLEAN : Tick(d, quit)
    \/ GoalCheck

Spec == Init /\ [][Next]_vars

----------------------------------------------------------------------------
\* move_with_memory called again and again with no goal check and no reset
\* between the calls, from the state the driver is in when an episode starts:
\* agent at the origin, cursor 0, and goal_paths either empty or holding the
\* path a trial found for the goal.

\* The sequences of 1 .. max_steps directions
AllPaths == UNION {[1 .. n -> Direction] : n \in 1 .. max_steps}

\* main.py:108-119: the paths a trial can store for goal g
TrialPaths(g) ==
    {p \in AllPaths :
        LET RECURSIVE Walk(_, _)
            Walk(pos, i) == IF i = 0 THEN pos
                            ELSE move_position(Walk(pos, i - 1), p[i])
        IN /\ Walk(Origin, Len(p)) = g
           /\ \A i \in 1 .. Len(p) - 1 : Walk(Origin, i) # g}

InitReplay ==
    /\ position = Origin
    /\ goal \in Coords
    /\ goal_paths \in {EmptyCache} \cup {[k \in {goal} |-> p] : p \in TrialPaths(goal)}
    /\ step = 0
    /\ branch = "none"
    /\ step_count = 0
    /\ running = TRUE
    /\ pc = "tick"
    /\ attempts = 0
    /\ trial_pos = Origin
    /\ path = <<>>

\* main.py:121-136: one call of move_with_memory; step_count counts the calls
Call(d) ==
    /\ pc = "tick"
    /\ step_count < MaxTicks
    /\ move_with_memory(d)
    /\ step_count' = step_count + 1
    /\ UNCHANGED <<running, pc, attempts, trial_pos, path>>

NextReplay == \E d \in Direction : Call(d)

SpecReplay == InitReplay /\ [][NextReplay]_vars

----------------------------------------------------------------------------
\* The driver with no cap on the ticks of an episode, under fair random
\* choice. step_count stops counting at MaxTicks, which then stands for
\* "MaxTicks ticks or more"; everything else is as in Spec.

\* main.py:167-174: the first half of one iteration of the driver loop
TickLive(d, quit) ==
    /\ pc = "tick"
    /\ running' = (running /\ ~quit)
    /\ move_with_memory(d)
    /\ step_count' = IF step_count < MaxTicks THEN step_count + 1 ELSE step_count
    /\ pc' = "check"
    /\ UNCHANGED <<attempts, trial_pos, path>>

NextLive ==
    \/ TrialBegin
    \/ EnsureExhausted
    \/ \E d \in Direction : TrialStep(d)
    \/ EnsureCheck
    \/ \E d \in Direction, quit \in BOOLEAN : TickLive(d, quit)
    \/ GoalCheck

\* main.py:66-77
manhattan_distance(pos1, pos2) ==
    (IF pos1[1] >= pos2[1] THEN pos1[1] - pos2[1] ELSE pos2[1] - pos1[1])
    + (IF pos1[2] >= pos2[2] THEN pos1[2] - pos2[2] ELSE pos2[2] - pos1[2])

\* A tick, the window staying open, that starts at distance k from the goal
\* and ends on the goal or nearer to it
TickNearer(k) ==
    /\ manhattan_distance(position, goal) = k
    /\ \E d \in Direction : TickLive(d, FALSE)
    /\ \/ position' = goal
       \/ manhattan_distance(position', goal) < manhattan_distance(position, goal)

\* The loop goes on from the goal check (main.py:186-194, 166), and
\* random_direction (main.py:79-81), drawing uniformly and independently,
\* again and again returns a direction towards the goal at every distance the
\* agent keeps coming back to.
FairLive ==
    /\ WF_vars(GoalCheck)
    /\ \A k \in 0 .. 2 * (GRID_SIZE - 1) : SF_vars(TickNearer(k))

SpecLive == Init /\ [][NextLive]_vars /\ FairLive

----------------------------------------------------------------------------
\* Helpers of the properties

\* The position reached from pos by applying the directions of p in order
\* with move_position (what move_with_memory does with a cached path)
RECURSIVE Replay(_, _)
Replay(pos, p) ==
    IF p = <<>> THEN pos ELSE Replay(move_position(pos, Head(p)), Tail(p))

Prefix(p, n) == SubSeq(p, 1, n)

\* Some move of p, replayed from the origin, is clamped (changes nothing)
HasClampedMove(p) ==
    \E i \in 1 .. Len(p) : Replay(Origin, Prefix(p, i)) = Replay(Origin, Prefix(p, i - 1))

----------------------------------------------------------------------------
\* C1  Cache monotonicity: in every step of the program an entry of goal_paths
\* stays, and if its path changes the new path is strictly shorter; a trial
\* that reaches the goal by a path not shorter than the stored one leaves
\* goal_paths as it is.
C1_CacheMonotone ==
    [][ /\ \A k \in DOMAIN goal_paths :
              /\ k \in DOMAIN goal_paths'
              /\ Len(goal_paths'[k]) <= Len(goal_paths[k])
              /\ goal_paths'[k] # goal_paths[k]
                    => Len(goal_paths'[k]) < Len(goal_paths[k])
        /\ ( /\ pc = "trial" /\ trial_pos' = goal
             /\ goal \in DOMAIN goal_paths
             /\ Len(path') >= Len(goal_paths[goal]) )
              => goal_paths' = goal_paths
      ]_vars

\* A trial has reached a cached goal by a different path of the same length,
\* and the entry is the old one
C1_Witness ==
    /\ pc = "after_trial"
    /\ trial_pos = goal
    /\ goal \in DOMAIN goal_paths
    /\ Len(path) = Len(goal_paths[goal])
    /\ path # goal_paths[goal]

\* C2  Cached-path validity: every cached path, replayed from the origin with
\* move_position's clamping, ends exactly at its key and is at most max_steps
\* long, clamped moves included.
C2_CachedPathValid ==
    \A g \in DOMAIN goal_paths :
        /\ Replay(Origin, goal_paths[g]) = g
        /\ Len(goal_paths[g]) <= max_steps

\* A path with a clamped move is cached
C2_Witness ==
    \E g \in DOMAIN goal_paths : HasClampedMove(goal_paths[g])

\* C3  Repeated-goal reuse: in an episode whose goal is cached with a path of
\* length L, the goal-reached check succeeds on the L-th tick of the episode
\* and on no other: not before it, and no tick comes after it.
C3_ReuseExactLength ==
    (pc \in {"tick", "check"} /\ goal \in DOMAIN goal_paths)
        => /\ step_count <= Len(goal_paths[goal])
           /\ pc = "check"
                => (position = goal <=> step_count = Len(goal_paths[goal]))
           /\ pc = "tick" => step_count < Len(goal_paths[goal])

\* The goal check is about to succeed on tick 2 of an episode whose goal was
\* cached with a path of length 2
C3_Witness ==
    /\ pc = "check"
    /\ goal \in DOMAIN goal_paths
    /\ Len(goal_paths[goal]) = 2
    /\ step_count = 2
    /\ position = goal

\* C4  Replay correctness: with a cached path p of length L for the goal and
\* cursor 0, the first L calls of move_with_memory make the moves p[1..L] in
\* order and advance the cursor by one each; every later call without a reset
\* takes the random branch and leaves the cursor at L. With (1,1) cached as
\* [right, down] the agent stands at (1,0) after one call and (1,1) after two.
C4_ReplayCorrect ==
    /\ [] (goal \in DOMAIN goal_paths =>
            LET p == goal_paths[goal]
                L == Len(p)
            IN /\ step = (IF step_count <= L THEN step_count ELSE L)
               /\ step_count <= L => position = Replay(Origin, Prefix(p, step_count))
               /\ (0 < step_count /\ step_count <= L) => branch = "replay"
               /\ step_count > L => branch = "random"
               /\ (goal = <<1, 1>> /\ p = <<"right", "down">>)
                    => /\ step_count = 1 => position = <<1, 0>>
                       /\ step_count = 2 => position = <<1, 1>>)
    /\ [][ (goal \in DOMAIN goal_paths) =>
             IF step < Len(goal_paths[goal])
             THEN /\ position' = move_position(position, goal_paths[goal][step + 1])
                  /\ step' = step + 1
                  /\ branch' = "replay"
             ELSE /\ step' = step
                  /\ branch' = "random"
                  /\ \E d \in Direction : position' = move_position(position, d)
         ]_vars

\* (1,1) is cached as [right, down] and the third call has drawn at random
C4_Witness ==
    /\ goal = <<1, 1>>
    /\ goal \in DOMAIN goal_paths
    /\ goal_paths[goal] = <<"right", "down">>
    /\ step_count = 3
    /\ step = 2
    /\ branch = "random"

\* C5  Bounds invariant: the agent's position, the trial's simulated position
\* and the goal are always inside the grid.
C5_InBounds ==
    /\ position \in Coords
    /\ trial_pos \in Coords
    /\ goal \in Coords

\* A trial has drawn "right" twice and stands at the right edge
C5_Witness ==
    /\ path = <<"right", "right">>
    /\ trial_pos[1] = GRID_SIZE - 1

\* The cell next to pos in direction d, on or off the grid
Neighbour(pos, d) ==
    IF d = "up" THEN <<pos[1], pos[2] - 1>>
    ELSE IF d = "down" THEN <<pos[1], pos[2] + 1>>
    ELSE IF d = "left" THEN <<pos[1] - 1, pos[2]>>
    ELSE <<pos[1] + 1, pos[2]>>

\* pos is at the edge that d points past
AtEdge(pos, d) ==
    \/ d = "up" /\ pos[2] = 0
    \/ d = "down" /\ pos[2] = GRID_SIZE - 1
    \/ d = "left" /\ pos[1] = 0
    \/ d = "right" /\ pos[1] = GRID_SIZE - 1

\* What the boundary rule asks of a move from pos in direction d to new
ClampRule(pos, d, new) ==
    IF AtEdge(pos, d) THEN new = pos ELSE new = Neighbour(pos, d)

\* C6  Boundary clamping: every move the program makes, of the trial's
\* simulated position or of the agent, leaves the position unchanged when it
\* is at the edge the direction points past, and otherwise moves it one cell
\* in that direction, the other coordinate unchanged; and the same holds of
\* move_position at every cell of the grid in every direction.
C6_BoundaryClamping ==
    /\ [](\A pos \in Coords, d \in Direction :
              ClampRule(pos, d, move_position(pos, d)))
    /\ [][ /\ pc = "trial" => ClampRule(trial_pos, path'[Len(path')], trial_pos')
           /\ (pc = "tick" /\ branch' = "replay")
                => ClampRule(position, goal_paths[goal][step + 1], position')
           /\ (pc = "tick" /\ branch' = "random")
                => \E d \in Direction : ClampRule(position, d, position')
         ]_vars

\* The trial's first draw was "up" and it still stands at the origin: a
\* clamped move
C6_Witness ==
    /\ pc = "trial"
    /\ path = <<"up">>
    /\ trial_pos = Origin

\* C7  Bounded retry in ensure: a call of ensure_path_for_goal begins at most
\* max_attempts trials; a second or later trial begins only while the goal
\* has no entry; when all max_attempts trials failed there is no entry for
\* the goal on return, and the ticks of that episode are random moves.
C7_BoundedRetry ==
    /\ attempts <= max_attempts
    /\ (pc \in {"ensure", "trial"} /\ attempts > (IF pc = "trial" THEN 1 ELSE 0))
          => goal \notin DOMAIN goal_paths
    /\ (pc \in {"tick", "check", "done"} /\ goal \notin DOMAIN goal_paths)
          => /\ attempts = max_attempts
             /\ branch \in {"none", "random"}
             /\ step_count > 0 => branch = "random"

\* Degraded mode: all trials failed and the agent has made two random moves
C7_Witness ==
    /\ pc = "check"
    /\ goal \notin DOMAIN goal_paths
    /\ attempts = max_attempts
    /\ step_count = 2
    /\ branch = "random"

\* C8  Discovery trial termination and discard: a trial draws at most
\* max_steps directions; its simulated position is its path replayed from the
\* origin; no proper non-empty prefix of its path ends at the goal, and while
\* it runs the path itself does not either; it ends only at the goal or after
\* max_steps draws; and a step that does not reach the goal leaves goal_paths
\* unchanged.
C8_TrialTermination ==
    /\ [] /\ Len(path) <= max_steps
          /\ trial_pos = Replay(Origin, path)
          /\ \A i \in 1 .. Len(path) - 1 : Replay(Origin, Prefix(path, i)) # goal
          /\ pc = "trial" => (trial_pos # goal \/ path = <<>>)
          /\ pc = "after_trial" => (trial_pos = goal \/ Len(path) = max_steps)
    /\ [][ (pc = "trial" /\ trial_pos' # goal) => goal_paths' = goal_paths ]_vars

\* A trial has used up its draws without reaching the goal
C8_Witness ==
    /\ pc = "after_trial"
    /\ Len(path) = max_steps
    /\ trial_pos # goal

\* C9  Reset correctness: the step that resets (the goal check succeeding)
\* leaves the position at the origin, the cursor at 0, the new goal on the
\* grid and goal_paths unchanged, whatever the state before it.
C9_ResetCorrect ==
    [][ (pc = "check" /\ position = goal)
          => /\ position' = Origin
             /\ step' = 0
             /\ goal' \in Coords
             /\ goal_paths' = goal_paths
             /\ pc' = "ensure"
      ]_vars

\* A reset is about to happen with the agent off the origin and the cursor
\* at 2
C9_Witness ==
    /\ pc = "check"
    /\ position = goal
    /\ position # Origin
    /\ step = 2

\* C10  Cursor reset rule: the cursor is 0 from the reset until the first
\* tick of the new episode, and whenever goal_paths holds no entry for the
\* current goal.
C10_CursorZero ==
    /\ (pc \in {"ensure", "trial", "after_trial"} \/ step_count = 0) => step = 0
    /\ goal \notin DOMAIN goal_paths => step = 0

\* An episode without a cached goal follows an episode with one, and the
\* agent has moved
C10_Witness ==
    /\ pc = "check"
    /\ goal \notin DOMAIN goal_paths
    /\ DOMAIN goal_paths # {}
    /\ step_count = 2
    /\ step = 0

\* The program is inside ensure_path_for_goal
InEnsure == pc \in {"ensure", "trial", "after_trial"}

\* C11  Episode ordering: the driver resets exactly on the goal checks at
\* which position = goal, once each: such a check resets and enters
\* ensure_path_for_goal at once; a check with position # goal resets nothing;
\* no other step changes the goal; and the first move_with_memory of an
\* episode comes only after ensure has run for the episode's goal.
C11_EpisodeOrdering ==
    /\ [][ /\ (pc = "check" /\ position = goal)
                => /\ pc' = "ensure" /\ attempts' = 0 /\ step_count' = 0
                   /\ position' = Origin /\ step' = 0
           /\ (pc = "check" /\ position # goal)
                => /\ UNCHANGED <<position, goal, step, step_count>>
                   /\ pc' \in {"tick", "done"}
           /\ (goal' # goal \/ step_count' < step_count \/ step' < step
                  \/ (pc' = "ensure" /\ ~InEnsure))
                => (pc = "check" /\ position = goal)
           /\ (InEnsure /\ ~InEnsure') => (attempts >= 1 /\ pc' \in {"tick", "done"})
         ]_vars
    /\ [] (pc = "tick" => (attempts >= 1 /\ (position # goal \/ step_count = 0)))

\* ensure_path_for_goal runs its first trial right after a reset: the cache
\* holds an entry of an earlier episode
C11_Witness ==
    /\ pc = "trial"
    /\ attempts = 1
    /\ step_count = 0
    /\ position = Origin
    /\ DOMAIN goal_paths # {}
    /\ goal \notin DOMAIN goal_paths

\* C12  No return to replay: a step that is not a reset never lowers the
\* cursor, and a tick that follows a random tick of the same episode is a
\* random tick.
C12_NoReturnToReplay ==
    [][ ~(pc = "check" /\ position = goal)
          => /\ step' >= step
             /\ branch = "random" => branch' = "random"
      ]_vars

\* Three random ticks in a row in one episode
C12_Witness ==
    /\ pc = "check"
    /\ branch = "random"
    /\ step_count = 3
    /\ position # goal

\* The driver loop runs an episode whose goal has no entry
Degraded == pc \in {"tick", "check"} /\ goal \notin DOMAIN goal_paths

\* C13  Degraded mode is not a stuck state: in an episode whose goal has no
\* entry after ensure_path_for_goal, every tick is a random move, no step
\* before the next reset starts a trial or changes goal_paths, and under fair
\* random choice the goal is eventually reached and a new episode begins in
\* ensure_path_for_goal (unless the window is closed first).
C13_DegradedProgress ==
    /\ [][ Degraded =>
             /\ goal_paths' = goal_paths
             /\ pc = "tick" => (branch' = "random" /\ pc' = "check")
             /\ (pc = "check" /\ position # goal)
                  => (pc' \in {"tick", "done"} /\ UNCHANGED <<goal, attempts>>)
         ]_vars
    /\ (Degraded /\ pc = "tick") ~> (pc = "ensure" \/ pc = "done")

\* A degraded episode reaches its goal on its third tick or later
C13_Witness ==
    /\ pc = "check"
    /\ goal \notin DOMAIN goal_paths
    /\ attempts = max_attempts
    /\ step_count = MaxTicks
    /\ position = goal
    /\ running

\* C14  Replay tracks the trial: whenever the current goal has an entry p,
\* the cursor c is at most Len(p) and the agent stands where p[1..c] leads
\* from the origin with clamping; so at every tick of such an episode the
\* cursor is inside p, and no random move is ever made with the goal cached.
C14_ReplayTracksTrial ==
    goal \in DOMAIN goal_paths =>
        LET p == goal_paths[goal]
        IN /\ step <= Len(p)
           /\ position = Replay(Origin, Prefix(p, step))
           /\ pc = "tick" => step < Len(p)
           /\ branch # "random"

\* Half way through the replay of a path of length 2, off the origin
C14_Witness ==
    /\ pc = "check"
    /\ goal \in DOMAIN goal_paths
    /\ Len(goal_paths[goal]) = 2
    /\ step = 1
    /\ branch = "replay"
    /\ position # Origin

\* C15  First-hit, non-empty paths: every cached path has at least one
\* direction and none of its proper non-empty prefixes, replayed from the
\* origin, ends at its goal (so goal (0,0) is never cached with the empty
\* path); and the goal check runs only after at least one tick of the episode.
C15_FirstHitNonEmpty ==
    /\ \A g \in DOMAIN goal_paths :
          /\ Len(goal_paths[g]) >= 1
          /\ \A i \in 1 .. Len(goal_paths[g]) - 1 :
                Replay(Origin, Prefix(goal_paths[g], i)) # g
    /\ pc = "check" => step_count >= 1

\* An episode with goal (0,0), cached with a path of length 2, ends on its
\* second tick
C15_Witness ==
    /\ pc = "check"
    /\ goal = Origin
    /\ goal \in DOMAIN goal_paths
    /\ Len(goal_paths[goal]) = 2
    /\ position = goal
    /\ step_count = 2

\* C16  ensure on an already-cached goal: ensure_path_for_goal begins a trial
\* whether or not the goal is cached, and returns after that one trial when
\* it is; the trial changes the goal's entry only to a strictly shorter path
\* that leads to the goal; and outside ensure_path_for_goal, through all the
\* ticks of an episode, goal_paths does not change.
C16_EnsureOnCached ==
    /\ [][ /\ (pc = "ensure" /\ attempts = 0)
                => (pc' = "trial" /\ attempts' = 1)
           /\ (pc = "after_trial" /\ goal \in DOMAIN goal_paths)
                => pc' \in {"tick", "done"}
           /\ (goal \in DOMAIN goal_paths /\ goal_paths' # goal_paths)
                => /\ pc = "trial" /\ attempts = 1
                   /\ Len(goal_paths'[goal]) < Len(goal_paths[goal])
                   /\ Replay(Origin, goal_paths'[goal]) = goal
           /\ ~InEnsure => goal_paths' = goal_paths
         ]_vars
    /\ [] ((InEnsure /\ attempts >= 2 /\ goal \in DOMAIN goal_paths)
             => (pc = "after_trial" /\ goal_paths[goal] = path))

\* ensure_path_for_goal has begun its trial for a goal that is cached with a
\* path of length 2
C16_Witness ==
    /\ pc = "trial"
    /\ attempts = 1
    /\ path = <<>>
    /\ goal \in DOMAIN goal_paths
    /\ Len(goal_paths[goal]) = 2

\* C17  Frame of the cache: a tick (move_with_memory) leaves goal_paths
\* unchanged; a step inside ensure_path_for_goal leaves the agent's position,
\* the cursor and the goal unchanged and neither adds, removes nor changes the
\* entry of a key other than the current goal; a key enters goal_paths only
\* while it is the current goal, and every key is a cell of the grid.
C17_CacheFrame ==
    /\ [][ /\ pc = "tick" => goal_paths' = goal_paths
           /\ InEnsure => UNCHANGED <<position, step, goal>>
           /\ \A k \in (DOMAIN goal_paths \cup DOMAIN goal_paths') \ {goal} :
                /\ k \in DOMAIN goal_paths
                /\ k \in DOMAIN goal_paths'
                /\ goal_paths'[k] = goal_paths[k]
           /\ DOMAIN goal_paths' \subseteq DOMAIN goal_paths \cup {goal}
         ]_vars
    /\ [] (DOMAIN goal_paths \subseteq Coords)

\* A trial has just stored a path for the goal beside the entry of another
\* key, and the agent has not moved
C17_Witness ==
    /\ pc = "after_trial"
    /\ trial_pos = goal
    /\ goal \in DOMAIN goal_paths
    /\ goal_paths[goal] = path
    /\ Cardinality(DOMAIN goal_paths) >= 2
    /\ position = Origin
    /\ trial_pos # position

====
